---- MODULE Spec2Model ----
(***************************************************************************)
(* Model of the call-binding core of kernelfunctions                       *)
(* (src/kernelfunctions/core/boundvariable.py): the BoundCall /            *)
(* BoundVariable tree, the explicit and implicit vectorization passes,     *)
(* finalize_mappings and the differentiability pass.                       *)
(*                                                                         *)
(* A BoundVariable is a record; its children are a sequence of records in  *)
(* dict (insertion) order.  Every pass is the recursive method of the      *)
(* source, written as a recursive operator that returns the mutated node   *)
(* together with the exception that stopped it (NoErr when it returned).   *)
(* Mutations made before an exception is raised stay in the returned node, *)
(* as they stay in the Python objects.                                     *)
(***************************************************************************)
EXTENDS Integers, Sequences, FiniteSets, TLC

\* ------------------------------------------------------------------------
\* Bounds of the model
\* ------------------------------------------------------------------------
MaxRank == 3      \* largest global dispatch rank a caller supplies
MaxAxis == 2      \* largest axis index inside an explicit axis tuple
MaxTupleLen == 2  \* longest explicit axis tuple

\* ------------------------------------------------------------------------
\* Python values that have no TLA+ counterpart
\* ------------------------------------------------------------------------
\* call_dimensionality = None
NoDim == -1

\* AccessType (native enum)
AccessType == {"none", "read", "write", "readwrite"}
\* CallMode (native enum)
CallMode == {"prim", "bwds", "fwds"}
\* IOType (enums.py)
IOType == {"inn", "out", "inout"}
\* ModifierID (backend)
ModifierID == {"inn", "out", "inout", "nodiff"}

\* Shape(None): the invalid (unresolved) shape
ShapeNone == [valid |-> FALSE, dims |-> <<>>]
\* Shape(*m)
Shape(m) == [valid |-> TRUE, dims |-> m]

\* ------------------------------------------------------------------------
\* Kernel-side types (SlangType) and variables (BaseSlangVariable)
\* ------------------------------------------------------------------------
\* vector_type / slang_type = None
NoType == [full_name |-> "None", differentiable |-> FALSE, rank |-> 0, fields |-> <<>>]

SlangType(full_name, differentiable, rank, fields) ==
    [full_name |-> full_name, differentiable |-> differentiable, rank |-> rank, fields |-> fields]

SlangVariable(name, type, modifiers) ==
    [name |-> name, type |-> type, modifiers |-> modifiers]

FloatType == SlangType("float", TRUE, 0, <<>>)
IntType == SlangType("int", FALSE, 0, <<>>)

\* ------------------------------------------------------------------------
\* Exceptions
\* ------------------------------------------------------------------------
NoVariable == <<>>
NoErr == [kind |-> "none", variable |-> NoVariable, message |-> ""]
Raise(kind, variable, message) == [kind |-> kind, variable |-> variable, message |-> message]
\* BoundVariableException(message, variable)
BoundVariableException(message, variable) == Raise("BoundVariableException", variable.id, message)

\* ------------------------------------------------------------------------
\* Marshalls (the `python` attribute of a BoundVariable)
\* ------------------------------------------------------------------------
\* NDBufferType(element_type, dims, writable): has_derivative is False
NDBufferType(element_type, dims, writable) ==
    [kind |-> "NDBufferType", el_type |-> element_type, dims |-> dims,
     has_derivative |-> FALSE, is_writable |-> writable]

\* NDDifferentiableBufferType(element_type, dims, writable): has_derivative is True
NDDifferentiableBufferType(element_type, dims, writable) ==
    [kind |-> "NDDifferentiableBufferType", el_type |-> element_type, dims |-> dims,
     has_derivative |-> TRUE, is_writable |-> writable]

\* The marshall the registry returns for a dict value
DictType(has_derivative) ==
    [kind |-> "DictType", el_type |-> NoType, dims |-> 0,
     has_derivative |-> has_derivative, is_writable |-> FALSE]

\* marshall.reduce_type(context, dimensions): the type left when `dimensions`
\* axes of the container are consumed by the dispatch; more axes than the
\* container has is an error.
reduce_type_raises(python, dimensions) == dimensions > python.dims
reduce_type(python, dimensions) ==
    IF dimensions = python.dims THEN python.el_type
    ELSE SlangType("NDBuffer", python.el_type.differentiable, python.dims - dimensions, <<>>)

\* marshall.resolve_type(context, bound_type): the vector type for the
\* declared kernel-side type
resolve_type(python, bound_type) == bound_type

\* marshall.resolve_dimensionality(context, vector_target_type): the
\* container's axes that the vector type does not consume
resolve_dimensionality(python, vector_target_type) ==
    IF python.dims > vector_target_type.rank THEN python.dims - vector_target_type.rank ELSE 0

\* ------------------------------------------------------------------------
\* Host values and the construction of the tree
\* ------------------------------------------------------------------------
\* A host value that is not a dict; `python` is the marshall
\* get_or_create_type returns for it
LeafValue(python) == [is_dict |-> FALSE, python |-> python, items |-> <<>>]
\* A dict value; items are its (key, value) pairs in insertion order
DictValue(python, items) == [is_dict |-> TRUE, python |-> python, items |-> items]
Item(name, value) == [name |-> name, value |-> value]

\* parent = None
NoParent == [is_none |-> TRUE, path |-> ""]
ParentOf(path) == [is_none |-> FALSE, path |-> path]

\* The path without the parent's path
init_path_name_only(parent, name) == name

\* `Initialize path` of BoundVariable.__init__
init_path(parent, name) ==
    IF parent.is_none THEN name ELSE parent.path \o "." \o name

\* isinstance(value, dict) that is false for the empty dict
isinstance_dict_nonempty(value) == value.is_dict /\ Len(value.items) > 0

\* isinstance(value, dict)
isinstance_dict(value) == value.is_dict

\* BoundVariable.__init__(context, value, parent, name).  `id` is the identity
\* of the constructed object: its position in the call (root index, then
\* child indices).  children_is_none is `self.children is None`.
RECURSIVE BoundVariable(_, _, _, _)
BoundVariable(value, parent, name, id) ==
    LET path == init_path(parent, name)
    IN [id |-> id,
        name |-> name,
        python |-> value.python,
        access |-> <<"none", "none">>,
        differentiable |-> FALSE,
        call_dimensionality |-> NoDim,
        vector_mapping |-> ShapeNone,
        vector_type |-> NoType,
        explicitly_vectorized |-> FALSE,
        slang_type |-> NoType,
        slang_modifiers |-> {},
        variable_name |-> "",
        path |-> path,
        children_is_none |-> ~isinstance_dict(value),
        children |-> IF isinstance_dict(value)
                     THEN [i \in 1..Len(value.items) |->
                             BoundVariable(value.items[i].value, ParentOf(path),
                                           value.items[i].name, Append(id, i))]
                     ELSE <<>>]

\* BoundCall.__init__(context, *args, **kwargs); kwargs is a sequence of
\* (name, value) items in insertion order
BoundCall(args, kwargs) ==
    [args |-> [i \in 1..Len(args) |-> BoundVariable(args[i], NoParent, "", <<i>>)],
     kwargs |-> [j \in 1..Len(kwargs) |->
                   Item(kwargs[j].name,
                        BoundVariable(kwargs[j].value, NoParent, kwargs[j].name,
                                      <<Len(args) + j>>))]]

\* BoundCall.values()
values(call) == call.args \o [j \in 1..Len(call.kwargs) |-> call.kwargs[j].value]

\* `name in self.kwargs` and self.kwargs[name]
KwargIndex(call, name) ==
    IF \E j \in 1..Len(call.kwargs) : call.kwargs[j].name = name
    THEN CHOOSE j \in 1..Len(call.kwargs) : call.kwargs[j].name = name
    ELSE 0

\* num_function_kwargs that forgets to exclude `_this`
num_function_kwargs_this_counted(call) ==
    LET total == Len(call.kwargs)
    IN IF KwargIndex(call, "_result") # 0 THEN total - 1 ELSE total

\* BoundCall.num_function_kwargs
num_function_kwargs(call) ==
    LET total == Len(call.kwargs)
        t1 == IF KwargIndex(call, "_this") # 0 THEN total - 1 ELSE total
        t2 == IF KwargIndex(call, "_result") # 0 THEN t1 - 1 ELSE t1
    IN t2

\* BoundCall.num_function_args
num_function_args(call) == Len(call.args) + num_function_kwargs(call)

\* ------------------------------------------------------------------------
\* Explicit vectorization overrides
\* ------------------------------------------------------------------------
\* The value a caller passes for one variable.  kind is the Python type the
\* isinstance tests of _apply_explicit_vectorization distinguish.
Override(kind, axes, type, name, items) ==
    [kind |-> kind, axes |-> axes, type |-> type, name |-> name, items |-> items]
OvNone == Override("None", <<>>, NoType, "", <<>>)
OvTuple(axes) == Override("tuple", axes, NoType, "", <<>>)
OvSlangType(type) == Override("SlangType", <<>>, type, "", <<>>)
OvStr(name) == Override("str", <<>>, NoType, name, <<>>)
OvType(name) == Override("type", <<>>, NoType, name, <<>>)
OvOther == Override("int", <<>>, NoType, "", <<>>)
OvDict(items) == Override("dict", <<>>, NoType, "", items)

\* mapping.get(name) on a dict override
dict_get(mapping, name) ==
    IF \E i \in 1..Len(mapping.items) : mapping.items[i].name = name
    THEN mapping.items[CHOOSE i \in 1..Len(mapping.items) : mapping.items[i].name = name].value
    ELSE OvNone

\* context.layout.find_type_by_name(name): None for a name the layout does
\* not know
find_type_by_name(name) ==
    IF name = "float" THEN FloatType
    ELSE IF name = "int" THEN IntType
    ELSE NoType

\* get_or_create_type(context.layout, mapping) for a host type: the
\* marshall's slang_type, or no marshall
HostTypeHasMarshall(name) == name \in {"float", "int"}
HostTypeSlangType(name) == find_type_by_name(name)

\* The result of a method: the node as the method left it, and the exception
\* it raised (NoErr when it returned)
Result(v, err) == [v |-> v, err |-> err]

\* BoundVariable._apply_explicit_vectorization(context, mapping)
_apply_explicit_vectorization(self, mapping) ==
    IF mapping.kind = "tuple" THEN
        LET s1 == [self EXCEPT !.vector_mapping = Shape(mapping.axes)] IN
        IF reduce_type_raises(self.python, Len(mapping.axes))
        THEN Result(s1, BoundVariableException("Explicit vectorization raised exception", self))
        ELSE Result([s1 EXCEPT !.vector_type = reduce_type(self.python, Len(mapping.axes)),
                               !.explicitly_vectorized = TRUE], NoErr)
    ELSE IF mapping.kind = "SlangType" THEN
        Result([self EXCEPT !.vector_type = mapping.type,
                            !.explicitly_vectorized = TRUE], NoErr)
    ELSE IF mapping.kind = "str" THEN
        Result([self EXCEPT !.vector_type = find_type_by_name(mapping.name),
                            !.explicitly_vectorized = TRUE], NoErr)
    ELSE IF mapping.kind = "type" THEN
        IF ~HostTypeHasMarshall(mapping.name)
        THEN Result(self, BoundVariableException("Explicit vectorization raised exception", self))
        ELSE Result([self EXCEPT !.vector_type = HostTypeSlangType(mapping.name),
                                 !.explicitly_vectorized = TRUE], NoErr)
    ELSE
        Result(self, BoundVariableException("Explicit vectorization raised exception", self))

\* BoundVariable.apply_explicit_vectorization(context, mapping); the loop
\* over self.children.items() is explicit_children, from child i on
RECURSIVE apply_explicit_vectorization(_, _), explicit_children(_, _, _)
explicit_children(self, mapping, i) ==
    IF i > Len(self.children) THEN Result(self, NoErr)
    ELSE LET child_mapping == dict_get(mapping, self.children[i].name) IN
         IF child_mapping.kind = "None" THEN explicit_children(self, mapping, i + 1)
         ELSE LET r == apply_explicit_vectorization(self.children[i], child_mapping)
                  s1 == [self EXCEPT !.children[i] = r.v]
              IN IF r.err # NoErr THEN Result(s1, r.err)
                 ELSE explicit_children(s1, mapping, i + 1)

apply_explicit_vectorization(self, mapping) ==
    IF ~self.children_is_none THEN
        IF mapping.kind # "dict" THEN Result(self, Raise("AssertionError", NoVariable, ""))
        ELSE LET r == explicit_children(self, mapping, 1) IN
             IF r.err # NoErr THEN r
             ELSE LET type_mapping == dict_get(mapping, "$type") IN
                  IF type_mapping.kind # "None"
                  THEN _apply_explicit_vectorization(r.v, type_mapping)
                  ELSE r
    ELSE _apply_explicit_vectorization(self, mapping)

\* The result of a BoundCall method: the call as left, and the exception
CallResult(call, err) == [call |-> call, err |-> err]

\* The loop `for i, arg in enumerate(args)` of
\* BoundCall.apply_explicit_vectorization, from index i on
RECURSIVE explicit_args(_, _, _)
explicit_args(call, args, i) ==
    IF i > Len(args) THEN CallResult(call, NoErr)
    ELSE LET r == apply_explicit_vectorization(call.args[i], args[i])
             c1 == [call EXCEPT !.args[i] = r.v]
         IN IF r.err # NoErr THEN CallResult(c1, r.err)
            ELSE explicit_args(c1, args, i + 1)

\* The loop `for name, arg in kwargs.items()`, from item j on
RECURSIVE explicit_kwargs(_, _, _)
explicit_kwargs(call, kwargs, j) ==
    IF j > Len(kwargs) THEN CallResult(call, NoErr)
    ELSE LET k == KwargIndex(call, kwargs[j].name) IN
         IF k = 0 THEN CallResult(call, Raise("ValueError", NoVariable, "Unknown keyword argument"))
         ELSE LET r == apply_explicit_vectorization(call.kwargs[k].value, kwargs[j].value)
                  c1 == [call EXCEPT !.kwargs[k].value = r.v]
              IN IF r.err # NoErr THEN CallResult(c1, r.err)
                 ELSE explicit_kwargs(c1, kwargs, j + 1)

\* apply_explicit_vectorization without the check of len(kwargs)
BoundCall_apply_explicit_vectorization_kwargs_unchecked(call, args, kwargs) ==
    IF Len(args) > Len(call.args)
    THEN CallResult(call, Raise("ValueError", NoVariable, "Too many arguments supplied for explicit vectorization"))
    ELSE LET r == explicit_args(call, args, 1) IN
         IF r.err # NoErr THEN r
         ELSE explicit_kwargs(r.call, kwargs, 1)

\* apply_explicit_vectorization that gives every positional variable without
\* an override the empty axis tuple
BoundCall_apply_explicit_vectorization_default_tuple(call, args, kwargs) ==
    IF Len(args) > Len(call.args)
    THEN CallResult(call, Raise("ValueError", NoVariable, "Too many arguments supplied for explicit vectorization"))
    ELSE IF Len(kwargs) > Len(call.kwargs)
    THEN CallResult(call, Raise("ValueError", NoVariable, "Too many keyword arguments supplied for explicit vectorization"))
    ELSE LET r == explicit_args(call, args \o [k \in 1..(Len(call.args) - Len(args)) |-> OvTuple(<<>>)], 1) IN
         IF r.err # NoErr THEN r
         ELSE explicit_kwargs(r.call, kwargs, 1)

\* BoundCall.apply_explicit_vectorization(context, args, kwargs)
BoundCall_apply_explicit_vectorization(call, args, kwargs) ==
    IF Len(args) > Len(call.args)
    THEN CallResult(call, Raise("ValueError", NoVariable, "Too many arguments supplied for explicit vectorization"))
    ELSE IF Len(kwargs) > Len(call.kwargs)
    THEN CallResult(call, Raise("ValueError", NoVariable, "Too many keyword arguments supplied for explicit vectorization"))
    ELSE LET r == explicit_args(call, args, 1) IN
         IF r.err # NoErr THEN r
         ELSE explicit_kwargs(r.call, kwargs, 1)

\* ------------------------------------------------------------------------
\* Binding to the kernel side
\* ------------------------------------------------------------------------
\* override_name = None
NoName == "<None>"

\* `child.name in self.slang_type.fields` and self.slang_type.fields[child.name]
HasField(type, name) == \E i \in 1..Len(type.fields) : type.fields[i].name = name
Field(type, name) == type.fields[CHOOSE i \in 1..Len(type.fields) : type.fields[i].name = name]

\* BoundVariable.bind(slang, modifiers, override_name); is_type is
\* isinstance(slang, SlangType).  The loop over self.children.values() is
\* bind_children, from child i on.
RECURSIVE bind(_, _, _, _, _), bind_children(_, _)
\* The child loop of bind handing no modifiers down
bind_children_own_modifiers(self, i) ==
    IF i > Len(self.children) THEN Result(self, NoErr)
    ELSE IF ~HasField(self.slang_type, self.children[i].name)
         THEN Result(self, Raise("KeyError", NoVariable, self.children[i].name))
         ELSE LET slang_child == Field(self.slang_type, self.children[i].name)
                  r == bind(self.children[i], FALSE, slang_child, {}, NoName)
                  s1 == [self EXCEPT !.children[i] = r.v]
              IN IF r.err # NoErr THEN Result(s1, r.err)
                 ELSE bind_children(s1, i + 1)

bind_children(self, i) ==
    IF i > Len(self.children) THEN Result(self, NoErr)
    ELSE IF ~HasField(self.slang_type, self.children[i].name)
         THEN Result(self, Raise("KeyError", NoVariable, self.children[i].name))
         ELSE LET slang_child == Field(self.slang_type, self.children[i].name)
                  r == bind(self.children[i], FALSE, slang_child, self.slang_modifiers, NoName)
                  s1 == [self EXCEPT !.children[i] = r.v]
              IN IF r.err # NoErr THEN Result(s1, r.err)
                 ELSE bind_children(s1, i + 1)

\* bind that takes the type's name as variable_name
bind_variable_name_of_type(self, is_type, slang, modifiers, override_name) ==
    IF is_type /\ self.name = "" /\ override_name = NoName
    THEN Result(self, Raise("AssertionError", NoVariable, ""))
    ELSE LET s1 == IF is_type
                   THEN [self EXCEPT !.name = IF self.name = "" THEN override_name ELSE self.name,
                                     !.slang_type = slang,
                                     !.slang_modifiers = modifiers]
                   ELSE [self EXCEPT !.name = slang.name,
                                     !.slang_type = slang.type,
                                     !.slang_modifiers = modifiers \cup slang.modifiers]
             s2 == [s1 EXCEPT !.variable_name = s1.slang_type.full_name]
         IN IF ~s2.children_is_none THEN bind_children(s2, 1)
            ELSE Result(s2, NoErr)

bind(self, is_type, slang, modifiers, override_name) ==
    IF is_type /\ self.name = "" /\ override_name = NoName
    THEN Result(self, Raise("AssertionError", NoVariable, ""))
    ELSE LET s1 == IF is_type
                   THEN [self EXCEPT !.name = IF self.name = "" THEN override_name ELSE self.name,
                                     !.slang_type = slang,
                                     !.slang_modifiers = modifiers]
                   ELSE [self EXCEPT !.name = slang.name,
                                     !.slang_type = slang.type,
                                     !.slang_modifiers = modifiers \cup slang.modifiers]
             s2 == [s1 EXCEPT !.variable_name = s1.name]
         IN IF ~s2.children_is_none THEN bind_children(s2, 1)
            ELSE Result(s2, NoErr)

\* io_type with the in+out combination forgotten
io_type_inout_only(self) ==
    IF "inout" \in self.slang_modifiers THEN "inout"
    ELSE IF "out" \in self.slang_modifiers THEN "out"
    ELSE "inn"

\* BoundVariable.io_type
io_type(self) ==
    LET have_in == "inn" \in self.slang_modifiers
        have_out == "out" \in self.slang_modifiers
        have_inout == "inout" \in self.slang_modifiers
    IN IF (have_in /\ have_out) \/ have_inout THEN "inout"
       ELSE IF have_out THEN "out"
       ELSE "inn"

\* BoundVariable.no_diff
no_diff(self) == "nodiff" \in self.slang_modifiers

\* ------------------------------------------------------------------------
\* Implicit vectorization, phase 1
\* ------------------------------------------------------------------------
\* max(self.vector_mapping.as_tuple())
RECURSIVE MaxOf(_)
MaxOf(s) ==
    IF Len(s) = 1 THEN s[1]
    ELSE LET m == MaxOf(Tail(s)) IN IF s[1] > m THEN s[1] ELSE m

\* The dimensionality of a pinned mapping taken to be its length
calculate_dimensionality_as_length(self) ==
    IF self.vector_mapping.valid
    THEN Result([self EXCEPT !.call_dimensionality = Len(self.vector_mapping.dims)], NoErr)
    ELSE IF self.vector_type = NoType
    THEN Result(self, Raise("AssertionError", NoVariable, ""))
    ELSE Result([self EXCEPT !.call_dimensionality =
                     resolve_dimensionality(self.python, self.vector_type)], NoErr)

\* The dimensionality queried from the marshall even when a mapping is pinned
calculate_dimensionality_resolve_always(self) ==
    IF self.vector_type = NoType
    THEN Result(self, Raise("AssertionError", NoVariable, ""))
    ELSE Result([self EXCEPT !.call_dimensionality =
                     resolve_dimensionality(self.python, self.vector_type)], NoErr)

\* The last block of _apply_implicit_vectorization: "Can now calculate
\* dimensionality"
calculate_dimensionality(self) ==
    IF self.vector_mapping.valid THEN
        IF Len(self.vector_mapping.dims) > 0
        THEN Result([self EXCEPT !.call_dimensionality = MaxOf(self.vector_mapping.dims) + 1], NoErr)
        ELSE Result([self EXCEPT !.call_dimensionality = 0], NoErr)
    ELSE IF self.vector_type = NoType
    THEN Result(self, Raise("AssertionError", NoVariable, ""))
    ELSE Result([self EXCEPT !.call_dimensionality =
                     resolve_dimensionality(self.python, self.vector_type)], NoErr)

\* BoundVariable._apply_implicit_vectorization(context)
_apply_implicit_vectorization(self) ==
    IF self.vector_mapping.valid /\ reduce_type_raises(self.python, Len(self.vector_mapping.dims))
    THEN Result(self, Raise("ValueError", NoVariable, "reduce_type"))
    ELSE
    LET s1 == IF self.vector_mapping.valid
              THEN [self EXCEPT !.vector_type = reduce_type(self.python, Len(self.vector_mapping.dims))]
              ELSE self
    IN IF s1.vector_type = NoType /\ s1.path # "_result" /\ s1.slang_type = NoType
       THEN Result(s1, Raise("AssertionError", NoVariable, ""))
       ELSE
       LET s2 == IF s1.vector_type # NoType THEN s1
                 ELSE IF s1.path = "_result" THEN s1
                 ELSE [s1 EXCEPT !.vector_type = resolve_type(s1.python, s1.slang_type)]
       IN IF ~s2.vector_mapping.valid /\ s2.vector_type = NoType /\ s2.path # "_result"
          THEN Result(s2, Raise("AssertionError", NoVariable, ""))
          ELSE
          LET s3 == IF ~s2.vector_mapping.valid /\ s2.vector_type = NoType
                    THEN [s2 EXCEPT !.vector_type = s2.slang_type]
                    ELSE s2
          IN calculate_dimensionality(s3)

\* BoundVariable.apply_implicit_vectorization(context); the loop over
\* self.children.values() is implicit_children, from child i on
RECURSIVE apply_implicit_vectorization(_), implicit_children(_, _)
implicit_children(self, i) ==
    IF i > Len(self.children) THEN Result(self, NoErr)
    ELSE LET r == apply_implicit_vectorization(self.children[i])
             s1 == [self EXCEPT !.children[i] = r.v]
         IN IF r.err # NoErr THEN Result(s1, r.err)
            ELSE implicit_children(s1, i + 1)

apply_implicit_vectorization(self) ==
    IF ~self.children_is_none
    THEN LET r == implicit_children(self, 1) IN
         IF r.err # NoErr THEN r ELSE _apply_implicit_vectorization(r.v)
    ELSE _apply_implicit_vectorization(self)

\* ------------------------------------------------------------------------
\* Finalize (phase 2)
\* ------------------------------------------------------------------------
\* list.reverse()
Reverse(m) == [j \in 1..Len(m) |-> m[Len(m) + 1 - j]]

\* _finalize_mappings without m.reverse()
_finalize_mappings_not_reversed(self, context) ==
    IF /\ context.strict_broadcasting
       /\ self.children_is_none
       /\ ~self.explicitly_vectorized
       /\ self.call_dimensionality # 0
       /\ self.call_dimensionality # context.call_dimensionality
    THEN Result(self, BoundVariableException("Strict broadcasting is enabled", self))
    ELSE IF ~self.vector_mapping.valid /\ self.call_dimensionality # NoDim
    THEN Result([self EXCEPT !.vector_mapping =
                    Shape([k \in 1..self.call_dimensionality |->
                             context.call_dimensionality - (k - 1) - 1])], NoErr)
    ELSE Result(self, NoErr)

\* _finalize_mappings without the strict-broadcasting check
_finalize_mappings_never_strict(self, context) ==
    IF ~self.vector_mapping.valid /\ self.call_dimensionality # NoDim
    THEN Result([self EXCEPT !.vector_mapping =
                    Shape(Reverse([k \in 1..self.call_dimensionality |->
                                     context.call_dimensionality - (k - 1) - 1]))], NoErr)
    ELSE Result(self, NoErr)

\* _finalize_mappings with the strict-broadcasting check applied to
\* explicitly vectorized leaves too
_finalize_mappings_strict_for_explicit(self, context) ==
    IF /\ context.strict_broadcasting
       /\ self.children_is_none
       /\ self.call_dimensionality # 0
       /\ self.call_dimensionality # context.call_dimensionality
    THEN Result(self, BoundVariableException("Strict broadcasting is enabled", self))
    ELSE IF ~self.vector_mapping.valid /\ self.call_dimensionality # NoDim
    THEN Result([self EXCEPT !.vector_mapping =
                    Shape(Reverse([k \in 1..self.call_dimensionality |->
                                     context.call_dimensionality - (k - 1) - 1]))], NoErr)
    ELSE Result(self, NoErr)

\* _finalize_mappings that leaves explicitly vectorized variables alone
_finalize_mappings_skips_explicit(self, context) ==
    IF /\ context.strict_broadcasting
       /\ self.children_is_none
       /\ ~self.explicitly_vectorized
       /\ self.call_dimensionality # 0
       /\ self.call_dimensionality # context.call_dimensionality
    THEN Result(self, BoundVariableException("Strict broadcasting is enabled", self))
    ELSE IF ~self.vector_mapping.valid /\ ~self.explicitly_vectorized THEN
        IF self.call_dimensionality = NoDim
        THEN Result(self, Raise("AssertionError", NoVariable, ""))
        ELSE LET m == [k \in 1..self.call_dimensionality |->
                          context.call_dimensionality - (k - 1) - 1]
             IN Result([self EXCEPT !.vector_mapping = Shape(Reverse(m))], NoErr)
    ELSE Result(self, NoErr)

\* _finalize_mappings that assigns mappings to leaves only
_finalize_mappings_leaves_only(self, context) ==
    IF /\ context.strict_broadcasting
       /\ self.children_is_none
       /\ ~self.explicitly_vectorized
       /\ self.call_dimensionality # 0
       /\ self.call_dimensionality # context.call_dimensionality
    THEN Result(self, BoundVariableException("Strict broadcasting is enabled", self))
    ELSE IF ~self.vector_mapping.valid /\ self.children_is_none THEN
        IF self.call_dimensionality = NoDim
        THEN Result(self, Raise("AssertionError", NoVariable, ""))
        ELSE LET m == [k \in 1..self.call_dimensionality |->
                          context.call_dimensionality - (k - 1) - 1]
             IN Result([self EXCEPT !.vector_mapping = Shape(Reverse(m))], NoErr)
    ELSE Result(self, NoErr)

\* _finalize_mappings with m.append(context.call_dimensionality - i)
_finalize_mappings_off_by_one(self, context) ==
    IF /\ context.strict_broadcasting
       /\ self.children_is_none
       /\ ~self.explicitly_vectorized
       /\ self.call_dimensionality # 0
       /\ self.call_dimensionality # context.call_dimensionality
    THEN Result(self, BoundVariableException("Strict broadcasting is enabled", self))
    ELSE IF ~self.vector_mapping.valid THEN
        IF self.call_dimensionality = NoDim
        THEN Result(self, Raise("AssertionError", NoVariable, ""))
        ELSE LET m == [k \in 1..self.call_dimensionality |->
                          context.call_dimensionality - (k - 1)]
             IN Result([self EXCEPT !.vector_mapping = Shape(Reverse(m))], NoErr)
    ELSE Result(self, NoErr)

\* BoundVariable._finalize_mappings(context)
_finalize_mappings(self, context) ==
    IF /\ context.strict_broadcasting
       /\ self.children_is_none
       /\ ~self.explicitly_vectorized
       /\ self.call_dimensionality # 0
       /\ self.call_dimensionality # context.call_dimensionality
    THEN Result(self, BoundVariableException("Strict broadcasting is enabled", self))
    ELSE IF ~self.vector_mapping.valid THEN
        IF self.call_dimensionality = NoDim
        THEN Result(self, Raise("AssertionError", NoVariable, ""))
        ELSE LET m == [k \in 1..self.call_dimensionality |->
                          context.call_dimensionality - (k - 1) - 1]
             IN Result([self EXCEPT !.vector_mapping = Shape(Reverse(m))], NoErr)
    ELSE Result(self, NoErr)

\* BoundVariable.finalize_mappings(context); the loop over
\* self.children.values() is finalize_children, from child i on
RECURSIVE finalize_mappings(_, _), finalize_children(_, _, _)
finalize_children(self, context, i) ==
    IF i > Len(self.children) THEN Result(self, NoErr)
    ELSE LET r == finalize_mappings(self.children[i], context)
             s1 == [self EXCEPT !.children[i] = r.v]
         IN IF r.err # NoErr THEN Result(s1, r.err)
            ELSE finalize_children(s1, context, i + 1)

finalize_mappings(self, context) ==
    IF ~self.children_is_none
    THEN LET r == finalize_children(self, context, 1) IN
         IF r.err # NoErr THEN r ELSE _finalize_mappings(r.v, context)
    ELSE _finalize_mappings(self, context)

\* ------------------------------------------------------------------------
\* Differentiability
\* ------------------------------------------------------------------------
\* _calculate_differentiability with the backward branch not looking at
\* self.differentiable
_calculate_differentiability_no_derivative(self, mode) ==
    IF mode = "prim" THEN
        IF io_type(self) = "inout" THEN [self EXCEPT !.access = <<"readwrite", "none">>]
        ELSE IF io_type(self) = "out" THEN [self EXCEPT !.access = <<"write", "none">>]
        ELSE [self EXCEPT !.access = <<"read", "none">>]
    ELSE IF mode = "bwds" THEN
        IF io_type(self) = "inout" THEN [self EXCEPT !.access = <<"read", "none">>]
        ELSE IF io_type(self) = "out" THEN [self EXCEPT !.access = <<"none", "none">>]
        ELSE [self EXCEPT !.access = <<"read", "none">>]
    ELSE [self EXCEPT !.access = <<"none", "none">>]

\* BoundVariable._calculate_differentiability(mode)
_calculate_differentiability(self, mode) ==
    IF mode = "prim" THEN
        IF self.differentiable THEN
            IF io_type(self) = "inout" THEN [self EXCEPT !.access = <<"readwrite", "none">>]
            ELSE IF io_type(self) = "out" THEN [self EXCEPT !.access = <<"write", "none">>]
            ELSE [self EXCEPT !.access = <<"read", "none">>]
        ELSE
            IF io_type(self) = "inout" THEN [self EXCEPT !.access = <<"readwrite", "none">>]
            ELSE IF io_type(self) = "out" THEN [self EXCEPT !.access = <<"write", "none">>]
            ELSE [self EXCEPT !.access = <<"read", "none">>]
    ELSE IF mode = "bwds" THEN
        IF self.differentiable THEN
            IF io_type(self) = "inout" THEN [self EXCEPT !.access = <<"read", "readwrite">>]
            ELSE IF io_type(self) = "out" THEN [self EXCEPT !.access = <<"none", "read">>]
            ELSE [self EXCEPT !.access = <<"read", "write">>]
        ELSE
            IF io_type(self) = "inout" THEN [self EXCEPT !.access = <<"read", "none">>]
            ELSE IF io_type(self) = "out" THEN [self EXCEPT !.access = <<"none", "none">>]
            ELSE [self EXCEPT !.access = <<"read", "none">>]
    ELSE [self EXCEPT !.access = <<"none", "none">>]

\* differentiable computed without looking at no_diff
differentiable_of_type_only(self) ==
    self.vector_type.differentiable /\ self.python.has_derivative

\* The assignment to self.differentiable in calculate_differentiability
differentiable_of(self) ==
    ~no_diff(self) /\ self.vector_type.differentiable /\ self.python.has_derivative

\* calculate_differentiability that does not descend into the children
calculate_differentiability_root_only(self, context) ==
    IF self.vector_type = NoType
    THEN Result(self, Raise("AssertionError", NoVariable, ""))
    ELSE Result(_calculate_differentiability(
                    [self EXCEPT !.differentiable = differentiable_of(self)],
                    context.call_mode), NoErr)

\* BoundVariable.calculate_differentiability(context); the loop over
\* self.children.values() is differentiability_children, from child i on
RECURSIVE calculate_differentiability(_, _), differentiability_children(_, _, _)
differentiability_children(self, context, i) ==
    IF i > Len(self.children) THEN Result(self, NoErr)
    ELSE LET r == calculate_differentiability(self.children[i], context)
             s1 == [self EXCEPT !.children[i] = r.v]
         IN IF r.err # NoErr THEN Result(s1, r.err)
            ELSE differentiability_children(s1, context, i + 1)

calculate_differentiability(self, context) ==
    IF self.vector_type = NoType
    THEN Result(self, Raise("AssertionError", NoVariable, ""))
    ELSE LET s1 == [self EXCEPT !.differentiable = differentiable_of(self)]
             s2 == _calculate_differentiability(s1, context.call_mode)
         IN IF ~s2.children_is_none THEN differentiability_children(s2, context, 1)
            ELSE Result(s2, NoErr)

\* ------------------------------------------------------------------------
\* The passes over all variables of a call
\* ------------------------------------------------------------------------
\* Put the root with index i of values() back into the call
SetRoot(call, i, v) ==
    IF i <= Len(call.args) THEN [call EXCEPT !.args[i] = v]
    ELSE [call EXCEPT !.kwargs[i - Len(call.args)].value = v]

\* BoundCall.apply_implicit_vectorization(context): args, then kwargs
\* values, from root i on
RECURSIVE BoundCall_apply_implicit_vectorization(_, _)
BoundCall_apply_implicit_vectorization(call, i) ==
    IF i > Len(values(call)) THEN CallResult(call, NoErr)
    ELSE LET r == apply_implicit_vectorization(values(call)[i])
             c1 == SetRoot(call, i, r.v)
         IN IF r.err # NoErr THEN CallResult(c1, r.err)
            ELSE BoundCall_apply_implicit_vectorization(c1, i + 1)

\* BoundCall.finalize_mappings(context): args, then kwargs values, from
\* root i on
RECURSIVE BoundCall_finalize_mappings(_, _, _)
BoundCall_finalize_mappings(call, context, i) ==
    IF i > Len(values(call)) THEN CallResult(call, NoErr)
    ELSE LET r == finalize_mappings(values(call)[i], context)
             c1 == SetRoot(call, i, r.v)
         IN IF r.err # NoErr THEN CallResult(c1, r.err)
            ELSE BoundCall_finalize_mappings(c1, context, i + 1)

\* BoundCall-level traversal of calculate_differentiability: every root of
\* values(), from root i on
RECURSIVE BoundCall_calculate_differentiability(_, _, _)
BoundCall_calculate_differentiability(call, context, i) ==
    IF i > Len(values(call)) THEN CallResult(call, NoErr)
    ELSE LET r == calculate_differentiability(values(call)[i], context)
             c1 == SetRoot(call, i, r.v)
         IN IF r.err # NoErr THEN CallResult(c1, r.err)
            ELSE BoundCall_calculate_differentiability(c1, context, i + 1)

\* ------------------------------------------------------------------------
\* Code generation
\* ------------------------------------------------------------------------
\* One call of the CodeGenBlock API: begin_struct, end_struct, begin_block,
\* end_block, declare, assign, append_line, append_statement, empty_line; a
\* is the first argument and b the second ("" when absent).  The op
\* "gen_calldata" is the emission of a marshall's gen_calldata hook for the
\* variable named a.
Emit(op, a, b) == [op |-> op, a |-> a, b |-> b]

\* CodeGen(): the blocks call_data_structs and call_data, both empty
CodeGen == [call_data_structs |-> <<>>, call_data |-> <<>>]

\* str(x) of an int
Digit(d) ==
    CASE d = 0 -> "0" [] d = 1 -> "1" [] d = 2 -> "2" [] d = 3 -> "3" [] d = 4 -> "4"
      [] d = 5 -> "5" [] d = 6 -> "6" [] d = 7 -> "7" [] d = 8 -> "8" [] d = 9 -> "9"
RECURSIVE NatToStr(_)
NatToStr(n) == IF n < 10 THEN Digit(n) ELSE NatToStr(n \div 10) \o Digit(n % 10)
IntToStr(x) == IF x < 0 THEN "-" \o NatToStr(0 - x) ELSE NatToStr(x)

\* ','.join([str(x) for x in m])
RECURSIVE Join(_)
Join(m) ==
    IF Len(m) = 0 THEN ""
    ELSE IF Len(m) = 1 THEN IntToStr(m[1])
    ELSE IntToStr(m[1]) \o "," \o Join(Tail(m))

\* The mapping constant without the scalar form for the empty mapping
MappingConstant_always_array(variable_name, m) ==
    Emit("append_statement",
         "static const int[] _m_" \o variable_name \o " = { " \o Join(m) \o " }", "")

\* The statement that declares the mapping constant _m_<name> for the axes m
MappingConstant(variable_name, m) ==
    IF Len(m) > 0
    THEN Emit("append_statement",
              "static const int[] _m_" \o variable_name \o " = { " \o Join(m) \o " }", "")
    ELSE Emit("append_statement", "static const int _m_" \o variable_name \o " = 0", "")

\* list(range(context.call_dimensionality))
Range(n) == [k \in 1..n |-> k - 1]

\* PrimType: (value, name) of the two slots, in enumeration order
PrimType == <<[value |-> 1, name |-> "primal"], [value |-> 2, name |-> "derivative"]>>

\* marshall.gen_calldata(cgb, context, binding): the hook of the leaf's
\* marshall.  NDBufferType asserts access[0] != none and access[1] == none.
gen_calldata_raises(binding) ==
    /\ binding.python.kind = "NDBufferType"
    /\ (binding.access[1] = "none" \/ binding.access[2] # "none")
gen_calldata(binding) == <<Emit("gen_calldata", binding.variable_name, binding.python.kind)>>

\* The entry appended to `names` for a child: (field, variable_name,
\* vector_type.full_name, vector_type.full_name + ".Differential")
NameEntry(field, variable) ==
    <<field, variable.variable_name, variable.vector_type.full_name,
      variable.vector_type.full_name \o ".Differential">>

\* The body of load_<slot>: for every name, declare, append_statement, assign
RECURSIVE LoadBody(_, _)
LoadBody(names, prim_name) ==
    IF Len(names) = 0 THEN <<>>
    ELSE <<Emit("declare", names[1][3], names[1][1]),
           Emit("append_statement",
                "this." \o names[1][2] \o ".load_" \o prim_name \o "(ctx(context, _m_"
                  \o names[1][2] \o ")," \o names[1][1] \o ")", ""),
           Emit("assign", "value." \o names[1][1], names[1][1])>>
         \o LoadBody(Tail(names), prim_name)

\* The body of store_<slot>: one append_statement for every name
RECURSIVE StoreBody(_, _)
StoreBody(names, prim_name) ==
    IF Len(names) = 0 THEN <<>>
    ELSE <<Emit("append_statement",
                "this." \o names[1][2] \o ".store_" \o prim_name \o "(ctx(context, _m_"
                  \o names[1][2] \o "),value." \o names[1][1] \o ")", "")>>
         \o StoreBody(Tail(names), prim_name)

\* The iteration that emits the load routine only
Accessors_load_only(self, names, prim) ==
    LET prim_name == prim.name
        prim_type_name == IF prim.name # "primal"
                          THEN self.vector_type.full_name \o ".Differential"
                          ELSE self.vector_type.full_name
    IN <<Emit("empty_line", "", ""),
         Emit("empty_line", "", ""),
         Emit("append_line",
              "void load_" \o prim_name \o "(IContext context, out " \o prim_type_name \o " value)", ""),
         Emit("begin_block", "", "")>>
       \o LoadBody(names, prim_name)
       \o <<Emit("end_block", "", "")>>

\* The iteration that does not close the block of the store routine
Accessors_unclosed(self, names, prim) ==
    LET prim_name == prim.name
        prim_type_name == IF prim.name # "primal"
                          THEN self.vector_type.full_name \o ".Differential"
                          ELSE self.vector_type.full_name
    IN <<Emit("empty_line", "", ""),
         Emit("empty_line", "", ""),
         Emit("append_line",
              "void load_" \o prim_name \o "(IContext context, out " \o prim_type_name \o " value)", ""),
         Emit("begin_block", "", "")>>
       \o LoadBody(names, prim_name)
       \o <<Emit("end_block", "", ""),
            Emit("empty_line", "", ""),
            Emit("append_line",
                 "void store_" \o prim_name \o "(IContext context, in " \o prim_type_name \o " value)", ""),
            Emit("begin_block", "", "")>>
       \o StoreBody(names, prim_name)

\* One iteration of `for prim in PrimType` for a slot whose access is not none
Accessors(self, names, prim) ==
    LET prim_name == prim.name
        prim_type_name == IF prim.name # "primal"
                          THEN self.vector_type.full_name \o ".Differential"
                          ELSE self.vector_type.full_name
    IN <<Emit("empty_line", "", ""),
         Emit("empty_line", "", ""),
         Emit("append_line",
              "void load_" \o prim_name \o "(IContext context, out " \o prim_type_name \o " value)", ""),
         Emit("begin_block", "", "")>>
       \o LoadBody(names, prim_name)
       \o <<Emit("end_block", "", ""),
            Emit("empty_line", "", ""),
            Emit("append_line",
                 "void store_" \o prim_name \o "(IContext context, in " \o prim_type_name \o " value)", ""),
            Emit("begin_block", "", "")>>
       \o StoreBody(names, prim_name)
       \o <<Emit("end_block", "", "")>>

\* The loop `for name in names: cgb.declare(...)`
FieldDeclarations(names) ==
    [k \in 1..Len(names) |-> Emit("declare", "_t_" \o names[k][2], names[k][2])]

\* The result of gen_call_data_code: the CodeGen as left and the exception
GenResult(cg, err) == [cg |-> cg, err |-> err]

\* cg.call_data_structs.<op>(...): append events to the block
ToStructs(cg, events) == [cg EXCEPT !.call_data_structs = @ \o events]

\* The leaf branch raising the non-writable error at every depth
gen_leaf_call_data_code_any_depth(self, cg, context, depth) ==
    IF /\ self.access[1] \in {"write", "readwrite"}
       /\ ~self.python.is_writable
    THEN GenResult(cg, BoundVariableException("Cannot read back value for non-writable type", self))
    ELSE IF gen_calldata_raises(self)
    THEN GenResult(cg, Raise("AssertionError", NoVariable, "gen_calldata"))
    ELSE GenResult(
           ToStructs(cg, gen_calldata(self)
                         \o <<MappingConstant(self.variable_name, self.vector_mapping.dims)>>),
           NoErr)

\* The leaf branch raising the non-writable error for a written derivative too
gen_leaf_call_data_code_derivative_checked(self, cg, context, depth) ==
    IF /\ (self.access[1] \in {"write", "readwrite"} \/ self.access[2] \in {"write", "readwrite"})
       /\ ~self.python.is_writable
       /\ depth = 0
    THEN GenResult(cg, BoundVariableException("Cannot read back value for non-writable type", self))
    ELSE IF gen_calldata_raises(self)
    THEN GenResult(cg, Raise("AssertionError", NoVariable, "gen_calldata"))
    ELSE GenResult(
           ToStructs(cg, gen_calldata(self)
                         \o <<MappingConstant(self.variable_name, self.vector_mapping.dims)>>),
           NoErr)

\* The leaf branch of gen_call_data_code (the else of `self.children is not
\* None`): the non-writable check, the marshall's hook, the mapping constant
gen_leaf_call_data_code(self, cg, context, depth) ==
    IF /\ self.access[1] \in {"write", "readwrite"}
       /\ ~self.python.is_writable
       /\ depth = 0
    THEN GenResult(cg, BoundVariableException("Cannot read back value for non-writable type", self))
    ELSE IF gen_calldata_raises(self)
    THEN GenResult(cg, Raise("AssertionError", NoVariable, "gen_calldata"))
    ELSE GenResult(
           ToStructs(cg, gen_calldata(self)
                         \o <<MappingConstant(self.variable_name, self.vector_mapping.dims)>>),
           NoErr)

\* BoundVariable.gen_call_data_code(cg, context, depth); the loop over
\* self.children.items() is gen_children, from child i on, collecting names
RECURSIVE gen_call_data_code(_, _, _, _), gen_children(_, _, _, _, _, _)
gen_children(self, cg, context, depth, i, names) ==
    IF i > Len(self.children) THEN [cg |-> cg, err |-> NoErr, names |-> names]
    ELSE LET r == gen_call_data_code(self.children[i], cg, context, depth + 1) IN
         IF r.err # NoErr THEN [cg |-> r.cg, err |-> r.err, names |-> names]
         ELSE IF self.children[i].vector_type = NoType
         THEN [cg |-> r.cg, err |-> Raise("AssertionError", NoVariable, ""), names |-> names]
         ELSE gen_children(self, r.cg, context, depth, i + 1,
                           Append(names, NameEntry(self.children[i].name, self.children[i])))

gen_call_data_code(self, cg, context, depth) ==
    LET r ==
        IF ~self.children_is_none THEN
            LET cg1 == ToStructs(cg, <<Emit("begin_struct", "_t_" \o self.variable_name, "")>>)
                c == gen_children(self, cg1, context, depth, 1, <<>>)
            IN IF c.err # NoErr THEN GenResult(c.cg, c.err)
               ELSE IF self.vector_type = NoType
                       /\ \E k \in 1..2 : self.access[PrimType[k].value] # "none"
               THEN GenResult(ToStructs(c.cg, FieldDeclarations(c.names)),
                              Raise("AssertionError", NoVariable, ""))
               ELSE GenResult(
                      ToStructs(c.cg,
                        FieldDeclarations(c.names)
                        \o (IF self.access[PrimType[1].value] # "none"
                            THEN Accessors(self, c.names, PrimType[1]) ELSE <<>>)
                        \o (IF self.access[PrimType[2].value] # "none"
                            THEN Accessors(self, c.names, PrimType[2]) ELSE <<>>)
                        \o <<Emit("end_struct", "", ""),
                             MappingConstant(self.variable_name,
                                             Range(context.call_dimensionality))>>),
                      NoErr)
        ELSE gen_leaf_call_data_code(self, cg, context, depth)
    IN IF r.err = NoErr /\ depth = 0
       THEN GenResult([r.cg EXCEPT !.call_data =
                          @ \o <<Emit("declare", "_t_" \o self.variable_name, self.variable_name)>>],
                      NoErr)
       ELSE r

\* gen_call_data_code(cg, context) on every root of values(), from root i on
RECURSIVE BoundCall_gen_call_data_code(_, _, _, _)
BoundCall_gen_call_data_code(call, cg, context, i) ==
    IF i > Len(values(call)) THEN GenResult(cg, NoErr)
    ELSE LET r == gen_call_data_code(values(call)[i], cg, context, 0) IN
         IF r.err # NoErr THEN r
         ELSE BoundCall_gen_call_data_code(call, r.cg, context, i + 1)

\* ------------------------------------------------------------------------
\* Inputs: host calls, kernel signatures, override requests, contexts
\* ------------------------------------------------------------------------
\* Axis tuples a caller may pass
AxisTuples == UNION {[1..k -> 0..MaxAxis] : k \in 0..MaxTupleLen}

\* Override values for a leaf
LeafOverrides ==
    {OvTuple(t) : t \in AxisTuples}
    \cup {OvSlangType(FloatType), OvSlangType(IntType), OvStr("float"), OvStr("unknown"),
          OvType("int"), OvType("unknown"), OvOther, OvNone}

\* Marshalls of the leaf values
LeafMarshalls ==
    {NDBufferType(FloatType, 1, FALSE), NDBufferType(IntType, 2, TRUE),
     NDDifferentiableBufferType(FloatType, 2, TRUE),
     NDDifferentiableBufferType(IntType, 0, FALSE),
     NDDifferentiableBufferType(FloatType, 1, FALSE)}

\* The input of one BoundVariable.bind call on a root
BindInput(is_type, slang, modifiers, override_name) ==
    [is_type |-> is_type, slang |-> slang, modifiers |-> modifiers, override_name |-> override_name]
\* bind(parameter): a kernel parameter with its declared modifiers
BindParam(name, type, modifiers) == BindInput(FALSE, SlangVariable(name, type, modifiers), {}, NoName)

\* struct S { float x; no_diff int y; } and a struct without the field y
StructS == SlangType("S", TRUE, 0,
                     <<SlangVariable("x", FloatType, {}), SlangVariable("y", IntType, {"nodiff"})>>)
StructT == SlangType("T", FALSE, 0, <<SlangVariable("x", FloatType, {"out"})>>)

Request(args, kwargs) == [args |-> args, kwargs |-> kwargs]

\* A host call: the positional and keyword values, for each root (in
\* values() order) the bind inputs the kernel side may supply, and the
\* explicit-vectorization requests the caller may make
HostCall(args, kwargs, slang, requests) ==
    [args |-> args, kwargs |-> kwargs, slang |-> slang, requests |-> requests]

\* f(a): one positional leaf, every modifier set
SingleLeafCalls ==
    {HostCall(<<LeafValue(m)>>, <<>>,
              <<{BindParam("a", m.el_type, M) : M \in SUBSET ModifierID}>>,
              {Request(a, k) :
                 a \in {<<>>} \cup {<<o>> : o \in LeafOverrides}
                       \cup {<<OvTuple(<<0>>), OvTuple(<<0>>)>>},
                 k \in {<<>>, <<Item("zz", OvTuple(<<0>>))>>}})
       : m \in LeafMarshalls}

\* f(a, b, k=..., _result=...): two positional and two keyword leaves
SmallOverrides == {OvTuple(<<0>>), OvSlangType(FloatType)}
KeywordRequests ==
    {<<>>}
    \cup {<<Item(n, OvTuple(<<0>>))>> : n \in {"k", "_result", "zz"}}
    \cup {<<Item(p[1], OvTuple(<<0>>)), Item(p[2], OvSlangType(IntType))>> :
            p \in {q \in {"k", "zz"} \X {"_result", "zz", "k"} : q[1] # q[2]}}
    \cup {<<Item("k", OvTuple(<<0>>)), Item("_result", OvTuple(<<0>>)), Item("zz", OvTuple(<<0>>))>>}
MultiLeafCall ==
    HostCall(<<LeafValue(NDBufferType(FloatType, 1, FALSE)),
               LeafValue(NDDifferentiableBufferType(FloatType, 2, TRUE))>>,
             <<Item("k", LeafValue(NDBufferType(IntType, 1, TRUE))),
               Item("_result", LeafValue(NDDifferentiableBufferType(FloatType, 2, TRUE)))>>,
             <<{BindParam("a", FloatType, {})},
               {BindParam("b", FloatType, M) : M \in {{"inn"}, {"inout", "nodiff"}}},
               {BindParam("k", IntType, {})},
               {BindInput(TRUE, FloatType, {"out"}, "_result")}>>,
             {Request(a, k) :
                a \in UNION {[1..n -> SmallOverrides] : n \in 0..3},
                k \in KeywordRequests})

\* f(s, _this=...): a dict value bound to a struct parameter
DictCall ==
    HostCall(<<DictValue(DictType(TRUE),
                         <<Item("x", LeafValue(NDDifferentiableBufferType(FloatType, 1, TRUE))),
                           Item("y", LeafValue(NDBufferType(IntType, 2, FALSE)))>>)>>,
             <<Item("_this", LeafValue(NDBufferType(FloatType, 0, TRUE)))>>,
             <<{BindParam("s", StructS, M) : M \in {{}, {"out"}, {"nodiff"}}}
                 \cup {BindParam("s", StructT, {})},
               {BindInput(TRUE, FloatType, {"inout"}, "_this")}>>,
             {Request(a, <<>>) :
                a \in {<<>>, <<OvTuple(<<0>>)>>}
                      \cup {<<OvDict(d)>> :
                              d \in {<<>>,
                                     <<Item("x", OvTuple(<<1>>))>>,
                                     <<Item("y", OvTuple(<<0, 1>>)), Item("x", OvSlangType(FloatType))>>,
                                     <<Item("y", OvTuple(<<0, 1, 2>>)), Item("x", OvTuple(<<0>>))>>,
                                     <<Item("x", OvOther), Item("$type", OvSlangType(StructS))>>,
                                     <<Item("$type", OvTuple(<<>>))>>}}})

\* f(a, _this=..., k=..., _result=...): both reserved keywords present
ReservedCall ==
    HostCall(<<LeafValue(NDBufferType(FloatType, 1, FALSE))>>,
             <<Item("_this", LeafValue(NDBufferType(FloatType, 0, FALSE))),
               Item("k", LeafValue(NDBufferType(IntType, 1, TRUE))),
               Item("_result", LeafValue(NDBufferType(FloatType, 1, TRUE)))>>,
             <<{BindParam("a", FloatType, {})},
               {BindInput(TRUE, FloatType, {}, "_this")},
               {BindParam("k", IntType, {"inout"})},
               {BindInput(TRUE, FloatType, {"out"}, "_result")}>>,
             {Request(<<>>, k) : k \in {<<>>, <<Item("_result", OvStr("unknown"))>>}})

\* struct N { P p; float x; E e; } with struct P { float x; } and the empty
\* struct E
StructP == SlangType("P", TRUE, 0, <<SlangVariable("x", FloatType, {})>>)
StructE == SlangType("E", FALSE, 0, <<>>)
StructN == SlangType("N", TRUE, 0,
                     <<SlangVariable("p", StructP, {}), SlangVariable("x", FloatType, {}),
                       SlangVariable("e", StructE, {})>>)

\* f(n, k=...): a dict holding a nested dict, a leaf and an empty dict, and a
\* read-only keyword leaf
NestedCall ==
    HostCall(<<DictValue(DictType(TRUE),
                         <<Item("p", DictValue(DictType(TRUE),
                                               <<Item("x", LeafValue(NDDifferentiableBufferType(FloatType, 1, TRUE)))>>)),
                           Item("x", LeafValue(NDBufferType(FloatType, 1, FALSE))),
                           Item("e", DictValue(DictType(FALSE), <<>>))>>)>>,
             <<Item("k", LeafValue(NDBufferType(FloatType, 1, FALSE)))>>,
             <<{BindParam("n", StructN, M) : M \in {{}, {"inout"}, {"nodiff", "out"}}},
               {BindParam("k", FloatType, M) : M \in {{}, {"out"}}}>>,
             {Request(a, <<>>) :
                a \in {<<>>,
                       <<OvDict(<<Item("p", OvDict(<<Item("x", OvTuple(<<0>>))>>))>>)>>,
                       <<OvDict(<<Item("p", OvOther)>>)>>}})

\* f(d): a dict one of whose keys contains the separator: {"a.b": .., "a": {"b": ..}};
\* no kernel struct has a field of that name
DottedCall ==
    HostCall(<<DictValue(DictType(FALSE),
                         <<Item("a", DictValue(DictType(FALSE),
                                               <<Item("b", LeafValue(NDBufferType(FloatType, 1, FALSE)))>>)),
                           Item("a.b", LeafValue(NDBufferType(FloatType, 1, FALSE)))>>)>>,
             <<>>,
             <<{BindParam("d", StructN, {}), BindParam("d", StructP, {})}>>,
             {Request(<<>>, <<>>),
              Request(<<OvDict(<<Item("a.b", OvTuple(<<0>>))>>)>>, <<>>)})

HostCalls == SingleLeafCalls \cup {MultiLeafCall, DictCall, ReservedCall, NestedCall, DottedCall}

\* ------------------------------------------------------------------------
\* State
\* ------------------------------------------------------------------------
VARIABLES
    pc,        \* the pass the call build has completed, or "failed"
    host,      \* the host call being built (its inputs)
    call,      \* the BoundCall
    context,   \* the BindContext
    request,   \* the arguments of the last BoundCall.apply_explicit_vectorization
    err,       \* the exception that aborted the build, NoErr if none
    cg         \* the CodeGen that gen_call_data_code emits into

vars == <<pc, host, call, context, request, err, cg>>

Init ==
    /\ pc = "built"
    /\ host \in HostCalls
    /\ call = BoundCall(host.args, host.kwargs)
    /\ context \in [call_dimensionality : {0}, call_mode : CallMode,
                    strict_broadcasting : BOOLEAN]
    /\ request = Request(<<>>, <<>>)
    /\ err = NoErr
    /\ cg = CodeGen

\* The outcome of a pass: the next pc when it returned, "failed" when it raised
Outcome(r, next) ==
    /\ call' = r.call
    /\ err' = r.err
    /\ pc' = IF r.err = NoErr THEN next ELSE "failed"

\* BoundCall.apply_explicit_vectorization(context, args, kwargs)
ApplyExplicitVectorization ==
    /\ pc = "built"
    /\ \E req \in host.requests :
         /\ request' = req
         /\ Outcome(BoundCall_apply_explicit_vectorization(call, req.args, req.kwargs), "explicit")
    /\ UNCHANGED <<host, context, cg>>

\* The first root of values() that is not bound yet, 0 if all are
NextUnbound ==
    IF \E i \in 1..Len(values(call)) : values(call)[i].slang_type = NoType
    THEN CHOOSE i \in 1..Len(values(call)) :
           /\ values(call)[i].slang_type = NoType
           /\ \A j \in 1..(i - 1) : values(call)[j].slang_type # NoType
    ELSE 0

\* BoundVariable.bind(slang, modifiers, override_name) on the next root
Bind ==
    /\ pc = "explicit"
    /\ NextUnbound # 0
    /\ \E b \in host.slang[NextUnbound] :
         LET r == bind(values(call)[NextUnbound], b.is_type, b.slang, b.modifiers, b.override_name)
         IN /\ call' = SetRoot(call, NextUnbound, r.v)
            /\ err' = r.err
            /\ pc' = IF r.err = NoErr THEN "explicit" ELSE "failed"
    /\ UNCHANGED <<host, context, request, cg>>

\* BoundCall.apply_implicit_vectorization(context)
ApplyImplicitVectorization ==
    /\ pc = "explicit"
    /\ NextUnbound = 0
    /\ Outcome(BoundCall_apply_implicit_vectorization(call, 1), "implicit")
    /\ UNCHANGED <<host, context, request, cg>>

\* context.call_dimensionality = R; BoundCall.finalize_mappings(context)
FinalizeMappings ==
    /\ pc = "implicit"
    /\ \E R \in 0..MaxRank :
         /\ context' = [context EXCEPT !.call_dimensionality = R]
         /\ Outcome(BoundCall_finalize_mappings(call, context', 1), "finalized")
    /\ UNCHANGED <<host, request, cg>>

\* calculate_differentiability(context) on every root
CalculateDifferentiability ==
    /\ pc = "finalized"
    /\ Outcome(BoundCall_calculate_differentiability(call, context, 1), "differentiated")
    /\ UNCHANGED <<host, context, request, cg>>

\* gen_call_data_code(cg, context) on every root
GenCallDataCode ==
    /\ pc = "differentiated"
    /\ LET r == BoundCall_gen_call_data_code(call, cg, context, 1)
       IN /\ cg' = r.cg
          /\ err' = r.err
          /\ pc' = IF r.err = NoErr THEN "generated" ELSE "failed"
    /\ UNCHANGED <<host, call, context, request>>

Next ==
    \/ ApplyExplicitVectorization
    \/ Bind
    \/ ApplyImplicitVectorization
    \/ FinalizeMappings
    \/ CalculateDifferentiability
    \/ GenCallDataCode

Spec == Init /\ [][Next]_vars

\* ------------------------------------------------------------------------
\* Vocabulary of the properties
\* ------------------------------------------------------------------------
\* A node and all its descendants
RECURSIVE Descendants(_)
Descendants(v) == {v} \cup UNION {Descendants(v.children[i]) : i \in 1..Len(v.children)}

\* Every node of every tree of a call
NodesOf(c) == UNION {Descendants(values(c)[i]) : i \in 1..Len(values(c))}
Nodes == NodesOf(call)
Leaves == {n \in Nodes : n.children_is_none}

\* The node of call c that is the object `id`
NodeAt(c, id) == CHOOSE n \in NodesOf(c) : n.id = id

\* Nodes that bind has reached
Bound(n) == n.slang_type # NoType

\* The access table of the differentiability pass, as documented
AccessTable(mode, differentiable, io) ==
    IF mode = "prim" THEN
        CASE io = "inn" -> <<"read", "none">>
          [] io = "out" -> <<"write", "none">>
          [] io = "inout" -> <<"readwrite", "none">>
    ELSE IF differentiable THEN
        CASE io = "inn" -> <<"read", "write">>
          [] io = "out" -> <<"none", "read">>
          [] io = "inout" -> <<"read", "readwrite">>
    ELSE
        CASE io = "inn" -> <<"read", "none">>
          [] io = "out" -> <<"none", "none">>
          [] io = "inout" -> <<"read", "none">>

\* The d trailing indices of [0, R) in ascending order: (R-d, ..., R-1)
Trailing(d, R) == [k \in 1..d |-> R - d + k - 1]

\* ------------------------------------------------------------------------
\* C1
\* ------------------------------------------------------------------------
\* C1: in Forward (prim) and Backward (bwds) mode, after the differentiability
\* pass every node's access pair is the entry of the documented table for
\* (mode, differentiable, io direction).
C1_AccessTable ==
    (pc = "differentiated" /\ context.call_mode \in {"prim", "bwds"}) =>
        \A n \in Nodes :
            n.access = AccessTable(context.call_mode, n.differentiable, io_type(n))

C1_Witness ==
    /\ pc = "differentiated"
    /\ context.call_mode = "bwds"
    /\ \E n \in Nodes :
         n.differentiable /\ io_type(n) = "out" /\ n.access = <<"none", "read">>

\* ------------------------------------------------------------------------
\* C2
\* ------------------------------------------------------------------------
\* C2: in every state, a node whose modifier set contains no-diff is not
\* differentiable, whatever its vector type and marshall say.
C2_NoDiffNotDifferentiable ==
    \A n \in Nodes : "nodiff" \in n.slang_modifiers => ~n.differentiable

C2_Witness ==
    /\ pc = "differentiated"
    /\ \E n \in Nodes :
         /\ "nodiff" \in n.slang_modifiers
         /\ n.vector_type.differentiable
         /\ n.python.has_derivative
         /\ ~n.differentiable

\* ------------------------------------------------------------------------
\* C3
\* ------------------------------------------------------------------------
\* C3: after the differentiability pass every node of every tree, root or
\* descendant, has differentiable = not no_diff and vector_type.differentiable
\* and marshall.has_derivative, and its access pair is the one of the call
\* mode and its own io direction ((none, none) in the mode that is neither
\* Forward nor Backward).
C3_DifferentiableEverywhere ==
    pc = "differentiated" =>
        \A n \in Nodes :
            /\ n.differentiable = (/\ "nodiff" \notin n.slang_modifiers
                                   /\ n.vector_type.differentiable
                                   /\ n.python.has_derivative)
            /\ n.access = IF context.call_mode \in {"prim", "bwds"}
                          THEN AccessTable(context.call_mode, n.differentiable, io_type(n))
                          ELSE <<"none", "none">>

C3_Witness ==
    /\ pc = "differentiated"
    /\ \E n \in Nodes :
         /\ Len(n.id) > 1
         /\ n.differentiable
         /\ n.access = <<"read", "write">>

\* ------------------------------------------------------------------------
\* C4
\* ------------------------------------------------------------------------
\* C4: for every modifier set, io_type is InOut when in and out are both
\* present or inout is present, Out when out is present without in and
\* without inout, and In otherwise.
C4_IOType ==
    \A n \in Nodes :
        Bound(n) =>
            LET m == n.slang_modifiers IN
            /\ (("inn" \in m /\ "out" \in m) \/ "inout" \in m) => io_type(n) = "inout"
            /\ ("out" \in m /\ "inn" \notin m /\ "inout" \notin m) => io_type(n) = "out"
            /\ (~(("inn" \in m /\ "out" \in m) \/ "inout" \in m)
                  /\ ~("out" \in m /\ "inn" \notin m /\ "inout" \notin m)) => io_type(n) = "inn"

C4_Witness ==
    /\ pc = "differentiated"
    /\ context.call_mode = "prim"
    /\ \E n \in Nodes :
         /\ n.slang_modifiers = {"inn", "out", "nodiff"}
         /\ n.access = <<"readwrite", "none">>

\* ------------------------------------------------------------------------
\* C5
\* ------------------------------------------------------------------------
\* The global dispatch rank the caller supplied
GlobalRank == context.call_dimensionality

\* C5 as stated: after finalize every leaf without an explicit override has
\* the mapping (R-d, ..., R-1), and every value of it lies in [0, R).
C5_TrailingInRange ==
    pc = "finalized" =>
        \A n \in Leaves :
            ~n.explicitly_vectorized =>
                /\ n.vector_mapping = Shape(Trailing(n.call_dimensionality, GlobalRank))
                /\ \A k \in 1..Len(n.vector_mapping.dims) :
                     n.vector_mapping.dims[k] \in 0..(GlobalRank - 1)

\* C5: after finalize every leaf without an explicit override, of
\* dimensionality d under global rank R, has the mapping (R-d, ..., R-1) in
\* ascending order; its values lie in [0, R) when d <= R.
C5_Trailing ==
    pc = "finalized" =>
        \A n \in Leaves :
            ~n.explicitly_vectorized =>
                /\ n.vector_mapping = Shape(Trailing(n.call_dimensionality, GlobalRank))
                /\ n.call_dimensionality <= GlobalRank =>
                     \A k \in 1..Len(n.vector_mapping.dims) :
                        n.vector_mapping.dims[k] \in 0..(GlobalRank - 1)

C5_Witness ==
    /\ pc = "finalized"
    /\ GlobalRank = 3
    /\ \E n \in Leaves :
         /\ ~n.explicitly_vectorized
         /\ n.call_dimensionality = 2
         /\ n.vector_mapping = Shape(<<1, 2>>)

\* ------------------------------------------------------------------------
\* C6
\* ------------------------------------------------------------------------
\* The leaves without explicit vectorization whose dimensionality is neither
\* 0 nor R
Mismatched(R) ==
    {n \in Leaves : ~n.explicitly_vectorized /\ n.call_dimensionality \notin {0, R}}

\* C6: with strict_broadcasting, finalize_mappings under rank R fails with a
\* BoundVariableException naming a non-explicit leaf whose dimensionality is
\* neither 0 nor R whenever there is one; without strict_broadcasting the
\* same call succeeds and every such leaf gets the trailing mapping.
C6_StrictBroadcasting ==
    [][(pc = "implicit" /\ pc' # "implicit") =>
         LET R == context'.call_dimensionality IN
         /\ (context'.strict_broadcasting /\ Mismatched(R) # {}) =>
               /\ pc' = "failed"
               /\ err'.kind = "BoundVariableException"
               /\ \E n \in Mismatched(R) : err'.variable = n.id
         /\ ~context'.strict_broadcasting =>
               /\ pc' = "finalized"
               /\ \A n \in Mismatched(R) :
                    NodeAt(call', n.id).vector_mapping =
                        Shape(Trailing(n.call_dimensionality, R))]_vars

C6_Witness ==
    /\ pc = "failed"
    /\ err.message = "Strict broadcasting is enabled"
    /\ context.strict_broadcasting
    /\ GlobalRank = 3
    /\ NodeAt(call, err.variable).call_dimensionality = 1

\* ------------------------------------------------------------------------
\* C7
\* ------------------------------------------------------------------------
\* C7 as stated: a variable pinned by an explicit axis tuple of length k has
\* call_dimensionality k after the implicit pass and finalize.
C7_DimensionalityIsLength ==
    [][(pc = "implicit" /\ pc' = "finalized") =>
         \A n \in Nodes :
            n.vector_mapping.valid =>
                NodeAt(call', n.id).call_dimensionality = Len(n.vector_mapping.dims)]_vars

\* C7: a variable pinned by an explicit axis tuple has, after the implicit
\* pass and finalize, call_dimensionality equal to the largest axis index of
\* the tuple plus one, and 0 for the empty tuple.
C7_DimensionalityIsMaxAxisPlusOne ==
    [][(pc = "implicit" /\ pc' = "finalized") =>
         \A n \in Nodes :
            n.vector_mapping.valid =>
                LET d == NodeAt(call', n.id).call_dimensionality
                    axes == n.vector_mapping.dims
                IN IF Len(axes) = 0 THEN d = 0
                   ELSE /\ \E k \in 1..Len(axes) : axes[k] = d - 1
                        /\ \A k \in 1..Len(axes) : axes[k] <= d - 1]_vars

C7_Witness ==
    /\ pc = "finalized"
    /\ \E n \in Nodes :
         /\ n.explicitly_vectorized
         /\ n.vector_mapping = Shape(<<0, 2>>)
         /\ n.call_dimensionality = 3

\* ------------------------------------------------------------------------
\* C8
\* ------------------------------------------------------------------------
\* C8: finalize_mappings raises no error at an explicitly vectorized leaf,
\* with or without strict_broadcasting and whatever its dimensionality and
\* the global rank are (a call whose leaves are all explicitly vectorized
\* finalizes), and a pinned axis mapping is left as it was.
C8_ExplicitLeafFinalizes ==
    [][(pc = "implicit" /\ pc' # "implicit") =>
         /\ \A n \in Leaves :
              n.explicitly_vectorized =>
                  /\ err'.variable # n.id
                  /\ n.vector_mapping.valid =>
                       NodeAt(call', n.id).vector_mapping = n.vector_mapping
         /\ (\A n \in Leaves : n.explicitly_vectorized) => pc' = "finalized"]_vars

C8_Witness ==
    /\ pc = "finalized"
    /\ context.strict_broadcasting
    /\ GlobalRank = 1
    /\ \E n \in Leaves :
         /\ n.explicitly_vectorized
         /\ n.call_dimensionality = 3
         /\ n.vector_mapping = Shape(<<2, 0>>)

\* ------------------------------------------------------------------------
\* C9, C10
\* ------------------------------------------------------------------------
\* The explicit pass is the first pass on a call: the tree before it is the
\* tree as constructed
AsConstructed == BoundCall(host.args, host.kwargs)

ArityErrors ==
    {"Too many arguments supplied for explicit vectorization",
     "Too many keyword arguments supplied for explicit vectorization"}

\* C9: apply_explicit_vectorization given more positional overrides than the
\* call has positional arguments, or more keyword overrides than it has
\* keyword arguments, fails with an arity error and has mutated no variable.
C9_ArityErrorBeforeMutation ==
    (Len(request.args) > Len(call.args) \/ Len(request.kwargs) > Len(call.kwargs)) =>
        /\ pc = "failed"
        /\ err.kind = "ValueError"
        /\ err.message \in ArityErrors
        /\ call = AsConstructed

C9_Witness ==
    /\ pc = "failed"
    /\ Len(request.args) = 3
    /\ Len(call.args) = 2
    /\ err.message = "Too many arguments supplied for explicit vectorization"
    /\ call = AsConstructed

\* C10 as stated: when apply_explicit_vectorization fails on a keyword
\* override whose name is not a keyword argument of the call, no override of
\* the request has been applied to any variable.
C10_UnknownKeywordBeforeMutation ==
    (pc = "failed" /\ err.message = "Unknown keyword argument") => call = AsConstructed

\* ------------------------------------------------------------------------
\* C11
\* ------------------------------------------------------------------------
\* C11: the explicit pass with an empty positional tuple and an empty keyword
\* mapping raises nothing, leaves every variable's explicitly_vectorized
\* false and its vector_mapping, vector_type and marshall as constructed, and
\* running it again on the result changes nothing either.
C11_EmptyExplicitPassIsNoOp ==
    [][(pc = "built" /\ request' = Request(<<>>, <<>>)) =>
          /\ err' = NoErr
          /\ pc' = "explicit"
          /\ \A n \in NodesOf(call') :
               /\ ~n.explicitly_vectorized
               /\ n.vector_mapping = NodeAt(call, n.id).vector_mapping
               /\ n.vector_type = NodeAt(call, n.id).vector_type
               /\ n.python = NodeAt(call, n.id).python
          /\ NodesOf(call') = NodesOf(call)
          /\ BoundCall_apply_explicit_vectorization(call', <<>>, <<>>) = CallResult(call', NoErr)]_vars

\* The empty request has been applied to a call with a composite and a leaf
C11_Witness ==
    /\ pc = "explicit"
    /\ request = Request(<<>>, <<>>)
    /\ call = AsConstructed
    /\ \E n \in Nodes : ~n.children_is_none
    /\ \E n \in Nodes : n.children_is_none /\ Len(n.id) = 1

\* ------------------------------------------------------------------------
\* C12
\* ------------------------------------------------------------------------
\* C12: whenever the explicit pass of a variable (leaf or composite) fails,
\* for an override of an unsupported shape or for an exception raised while
\* resolving an override, the exception that escapes is a
\* BoundVariableException whose variable is a node of the call; no other
\* exception type escapes the explicit pass of a variable.
C12_OnlyBoundVariableException ==
    [][(/\ pc = "built"
        /\ pc' = "failed"
        /\ err'.message \notin ArityErrors \cup {"Unknown keyword argument"}) =>
          /\ err'.kind = "BoundVariableException"
          /\ \E n \in NodesOf(call') : n.id = err'.variable]_vars

\* ------------------------------------------------------------------------
\* C13
\* ------------------------------------------------------------------------
\* C13: when bind reaches a composite node one of whose children names a
\* field that the node's bound kernel type does not have, bind fails with a
\* binding error (a BoundVariableException) that carries the offending child.
C13_AbsentFieldIsBindingError ==
    [][(/\ pc = "explicit"
        /\ pc' = "failed"
        /\ \E n \in NodesOf(call') :
             /\ Bound(n) /\ ~n.children_is_none
             /\ \E i \in 1..Len(n.children) : ~HasField(n.slang_type, n.children[i].name)) =>
          /\ err'.kind = "BoundVariableException"
          /\ \E n \in NodesOf(call') :
               /\ Bound(n) /\ ~n.children_is_none
               /\ \E i \in 1..Len(n.children) :
                    /\ ~HasField(n.slang_type, n.children[i].name)
                    /\ n.children[i].id = err'.variable]_vars

\* ------------------------------------------------------------------------
\* C14
\* ------------------------------------------------------------------------
\* The keyword variables of a call that are parameters of the function
FunctionKwargs(c) == {j \in 1..Len(c.kwargs) : c.kwargs[j].name \notin {"_this", "_result"}}

\* C14: for every BoundCall, num_function_kwargs is the number of keyword
\* variables whose key is neither `_this` nor `_result`, and num_function_args
\* is the number of positional variables plus that number, whichever of the
\* two reserved keys are present.
C14_ReservedKeywordsNotCounted ==
    /\ num_function_kwargs(call) = Cardinality(FunctionKwargs(call))
    /\ num_function_args(call) = Len(call.args) + Cardinality(FunctionKwargs(call))

\* A call that has both reserved keys and one ordinary keyword
C14_Witness ==
    /\ pc = "differentiated"
    /\ KwargIndex(call, "_this") # 0
    /\ KwargIndex(call, "_result") # 0
    /\ num_function_kwargs(call) = 1
    /\ num_function_args(call) = 2

\* ------------------------------------------------------------------------
\* C15
\* ------------------------------------------------------------------------
\* depth of a node: 0 for the roots of the call
Depth(n) == Len(n.id) - 1

\* A leaf whose marshall is not writable and whose primal access writes
NonWritablePrimalWrite(n) ==
    /\ n.children_is_none
    /\ ~n.python.is_writable
    /\ n.access[1] \in {"write", "readwrite"}

\* The marshall's hook has been called for leaf n in block
HookCalled(block, n) ==
    \E k \in 1..Len(block) : block[k] = Emit("gen_calldata", n.variable_name, n.python.kind)

NonWritableDerivativeWrite(n) ==
    /\ n.children_is_none
    /\ ~n.python.is_writable
    /\ n.access[2] \in {"write", "readwrite"}
    /\ Depth(n) = 0

\* C16 as stated: gen_call_data_code of a top-level leaf whose marshall is
\* not writable and whose derivative access is write or readwrite fails with
\* the non-writable error, as it does for a written primal slot.
C16_DerivativeWriteIsError ==
    [][(pc = "differentiated" /\ pc' # pc) =>
          \A n \in Leaves : NonWritableDerivativeWrite(n) =>
             /\ gen_call_data_code(n, CodeGen, context, 0).err
                  = BoundVariableException("Cannot read back value for non-writable type", n)
             /\ pc' = "failed"]_vars

\* C16: gen_call_data_code of a top-level leaf whose marshall is not
\* writable raises the non-writable error exactly when the primal access is
\* write or readwrite; a written derivative slot alone is no error: the
\* marshall's hook is called, the mapping constant and the call-data field
\* are emitted, and a call of that single leaf generates.
C16_OnlyPrimalWriteIsError ==
    [][(pc = "differentiated" /\ pc' # pc) =>
          \A n \in Leaves : NonWritableDerivativeWrite(n) =>
             LET r == gen_call_data_code(n, CodeGen, context, 0) IN
             IF n.access[1] \in {"write", "readwrite"}
             THEN r.err = BoundVariableException("Cannot read back value for non-writable type", n)
             ELSE /\ r.err = NoErr
                  /\ HookCalled(r.cg.call_data_structs, n)
                  /\ r.cg.call_data = <<Emit("declare", "_t_" \o n.variable_name, n.variable_name)>>
                  /\ (Len(values(call)) = 1 => pc' = "generated")]_vars

\* A generated call with a top-level read-only leaf whose derivative is
\* written
C16_Witness ==
    /\ pc = "generated"
    /\ context.call_mode = "bwds"
    /\ \E n \in Leaves :
         /\ NonWritableDerivativeWrite(n)
         /\ HookCalled(cg.call_data_structs, n)

\* ------------------------------------------------------------------------
\* C17
\* ------------------------------------------------------------------------
\* The explicit pass, bind, implicit phase 1 and finalize have completed
\* without error
Vectorized == pc \in {"finalized", "differentiated", "generated"}

\* C17: after the explicit pass, implicit phase 1 and finalize have completed
\* without error, every leaf (a leaf pinned only by a type override and the
\* `_result` leaf included) has a valid vector_mapping and a vector_type
\* that is not None.
C17_LeavesResolved ==
    Vectorized =>
        \A n \in Leaves : n.vector_mapping.valid /\ n.vector_type # NoType

\* A vectorized call whose `_result` leaf was pinned by a type name that the
\* layout does not know, next to a leaf pinned by a kernel type only
C17_Witness ==
    /\ pc = "finalized"
    /\ \E n \in Leaves :
         /\ n.path = "_result" /\ n.explicitly_vectorized
         /\ \E j \in 1..Len(request.kwargs) :
              request.kwargs[j].name = "_result" /\ request.kwargs[j].value.kind \in {"str", "SlangType"}
         /\ n.vector_mapping.valid /\ n.vector_type # NoType
    /\ \E n \in Leaves : n.path # "_result" /\ ~n.explicitly_vectorized /\ n.vector_mapping.valid

\* ------------------------------------------------------------------------
\* C18
\* ------------------------------------------------------------------------
Composites == {n \in Nodes : ~n.children_is_none}

\* C18 as stated: after the vectorization passes no composite node carries an
\* axis mapping; its vector_mapping is still invalid.
C18_CompositesUnmapped ==
    Vectorized => \A n \in Composites : ~n.vector_mapping.valid

\* C18: after the vectorization passes every composite node has a valid
\* vector_mapping as well: the one an explicit `$type` axis tuple gave it,
\* or else the trailing axes (R-d, ..., R-1) of its own dimensionality d
\* that _finalize_mappings assigns to any node without a mapping.
C18_CompositesMapped ==
    Vectorized =>
        \A n \in Composites :
            /\ n.vector_mapping.valid
            /\ \/ n.explicitly_vectorized
               \/ n.vector_mapping.dims = Trailing(n.call_dimensionality, GlobalRank)

\* A vectorized call with a composite that holds a nested composite, neither
\* explicitly vectorized, both with a valid mapping
C18_Witness ==
    /\ pc = "finalized"
    /\ GlobalRank > 0
    /\ \E n \in Composites :
         /\ ~n.explicitly_vectorized /\ n.vector_mapping.valid
         /\ \E i \in 1..Len(n.children) :
              /\ ~n.children[i].children_is_none
              /\ ~n.children[i].explicitly_vectorized
              /\ n.children[i].vector_mapping.valid

\* ------------------------------------------------------------------------
\* C19
\* ------------------------------------------------------------------------
\* The largest element of a non-empty set of integers
SetMax(S) == CHOOSE x \in S : \A y \in S : y <= x

\* The largest phase-1 dimensionality over all variables of the call
MaxDimensionality == SetMax({n.call_dimensionality : n \in Nodes})

\* The axis indices referenced by the resolved mappings of the call
AxesReferenced ==
    UNION {{n.vector_mapping.dims[k] : k \in 1..Len(n.vector_mapping.dims)} :
             n \in {v \in Nodes : v.vector_mapping.valid}}

\* C19: when finalize_mappings has run under the global dispatch rank
\* R = the maximum phase-1 dimensionality over all variables of the call,
\* every axis index referenced by a resolved mapping is >= 0 and < R, and R
\* is one plus the largest referenced index (R = 0 when no index is
\* referenced).
C19_RankIsMaxAxisPlusOne ==
    (Vectorized /\ GlobalRank = MaxDimensionality) =>
        /\ \A a \in AxesReferenced : 0 <= a /\ a < GlobalRank
        /\ GlobalRank = 1 + SetMax(AxesReferenced \cup {-1})

\* Finalized under R = the maximum dimensionality 2 or more, with a variable
\* pinned by an axis tuple and a variable of lower dimensionality that was
\* given trailing axes
C19_Witness ==
    /\ pc = "finalized"
    /\ GlobalRank = MaxDimensionality
    /\ GlobalRank >= 2
    /\ \E n \in Leaves : n.explicitly_vectorized /\ Len(n.vector_mapping.dims) > 0
    /\ \E n \in Leaves :
         /\ ~n.explicitly_vectorized
         /\ n.call_dimensionality \in 1..(GlobalRank - 1)
         /\ n.vector_mapping.dims = Trailing(n.call_dimensionality, GlobalRank)

\* ------------------------------------------------------------------------
\* C20
\* ------------------------------------------------------------------------
\* The host values of the call's roots, in values() order
HostValues == host.args \o [j \in 1..Len(host.kwargs) |-> host.kwargs[j].value]

\* The tree rooted at v is the tree of the host value: children present iff
\* the value is a dict, one child per key in key order, each child the
\* object constructed for that key (its identity and marshall), recursively
RECURSIVE TreeOf(_, _)
TreeOf(v, value) ==
    /\ v.children_is_none = ~value.is_dict
    /\ v.python = value.python
    /\ Len(v.children) = Len(value.items)
    /\ \A i \in 1..Len(v.children) :
         /\ v.children[i].name = value.items[i].name
         /\ v.children[i].id = Append(v.id, i)
         /\ TreeOf(v.children[i], value.items[i].value)

\* C20: a BoundVariable has children iff its host value is a dict, with
\* exactly one child per key in key order, built recursively, and any other
\* value gives a leaf; in every state of a build, after any pass and after a
\* failed pass, the children are the ones constructed.
C20_ChildrenFromDict ==
    /\ Len(values(call)) = Len(HostValues)
    /\ \A i \in 1..Len(HostValues) :
         /\ values(call)[i].id = <<i>>
         /\ TreeOf(values(call)[i], HostValues[i])

\* A generated call whose argument is a dict with a nested dict, a leaf and
\* an empty dict
C20_Witness ==
    /\ pc = "generated"
    /\ \E n \in Composites :
         /\ Len(n.children) = 3
         /\ ~n.children[1].children_is_none /\ Len(n.children[1].children) = 1
         /\ n.children[2].children_is_none
         /\ ~n.children[3].children_is_none /\ Len(n.children[3].children) = 0

\* ------------------------------------------------------------------------
\* C21
\* ------------------------------------------------------------------------
\* The name a root was constructed with: "" for a positional argument, the
\* keyword for a keyword argument
ConstructedName(i) ==
    IF i <= Len(host.args) THEN "" ELSE host.kwargs[i - Len(host.args)].name

\* Every node's path is parent.path + "." + name, and just the constructed
\* name at a root
PathsJoined ==
    /\ \A i \in 1..Len(values(call)) : values(call)[i].path = ConstructedName(i)
    /\ \A n \in Composites : \A k \in 1..Len(n.children) :
         n.children[k].path = n.path \o "." \o n.children[k].name

\* No two distinct nodes of one tree have the same path
PathsUnique(root) ==
    \A n1, n2 \in Descendants(root) : n1.id # n2.id => n1.path # n2.path

\* '.' in name, for the keys of the host values
KeyHasDot(name) == name = "a.b"

\* C21 as stated: every node's path is parent.path + "." + name (the name at
\* the root) and no two distinct nodes of a tree have the same path, for
\* every nested mapping of string keys.
C21_PathsUniqueForAllKeys ==
    /\ PathsJoined
    /\ \A i \in 1..Len(values(call)) : PathsUnique(values(call)[i])

\* C21: every node's path is parent.path + "." + name, the name given at
\* construction at the root, and no two distinct nodes of a tree have the
\* same path provided no key of the tree contains the separator ".".
C21_PathsUniqueForDotFreeKeys ==
    /\ PathsJoined
    /\ \A i \in 1..Len(values(call)) :
         (\A n \in Descendants(values(call)[i]) : ~KeyHasDot(n.name)) => PathsUnique(values(call)[i])

\* A tree in which the key x occurs under two different parents
C21_Witness ==
    /\ pc = "built"
    /\ \E r \in {values(call)[i] : i \in 1..Len(values(call))} :
         /\ \A n \in Descendants(r) : ~KeyHasDot(n.name)
         /\ \E n1, n2 \in Descendants(r) :
              /\ n1.id # n2.id /\ n1.name = n2.name
              /\ n1.path = ".p.x" /\ n2.path = ".x"

\* ------------------------------------------------------------------------
\* C22
\* ------------------------------------------------------------------------
\* Every statement that declares a mapping constant of a node of the call
MappingConstants ==
    {MappingConstant(n.variable_name, m) :
       n \in Nodes,
       m \in {v.vector_mapping.dims : v \in Nodes} \cup {Range(r) : r \in 0..context.call_dimensionality}}

\* The positions of block that hold a mapping constant
MappingConstantsIn(block) == {k \in 1..Len(block) : block[k] \in MappingConstants}

\* C22 as stated: generation emits for every node, composite or leaf, the
\* constant _m_<variable_name> listing that node's own vector_mapping (the
\* scalar 0 for an empty mapping), one constant per node.
C22_ConstantListsOwnMapping ==
    pc = "generated" =>
        \A n \in Nodes :
            LET r == gen_call_data_code(n, CodeGen, context, Depth(n))
                block == r.cg.call_data_structs
            IN /\ block[Len(block)] = MappingConstant(n.variable_name, n.vector_mapping.dims)
               /\ Cardinality(MappingConstantsIn(block)) = Cardinality(Descendants(n))

\* C22: generation emits exactly one constant _m_<variable_name> per node,
\* as the last statement of the node's code: a leaf's constant lists its
\* vector_mapping in order, a composite's constant lists all the axes
\* 0..R-1 of the call; an empty list is emitted as the scalar 0.
C22_ConstantPerNode ==
    pc = "generated" =>
        \A n \in Nodes :
            LET r == gen_call_data_code(n, CodeGen, context, Depth(n))
                block == r.cg.call_data_structs
                m == IF n.children_is_none THEN n.vector_mapping.dims
                     ELSE Range(context.call_dimensionality)
            IN /\ r.err = NoErr
               /\ block[Len(block)] = MappingConstant(n.variable_name, m)
               /\ block[Len(block)].a =
                    (IF Len(m) = 0 THEN "static const int _m_" \o n.variable_name \o " = 0"
                     ELSE "static const int[] _m_" \o n.variable_name \o " = { " \o Join(m) \o " }")
               /\ Cardinality(MappingConstantsIn(block)) = Cardinality(Descendants(n))

\* A generated call under rank 2 or more with a composite, a leaf with a
\* mapping of two axes and a leaf with the empty mapping
C22_Witness ==
    /\ pc = "generated"
    /\ GlobalRank >= 2
    /\ Composites # {}
    /\ \E n \in Leaves : Len(n.vector_mapping.dims) = 2
    /\ \E n \in Leaves : Len(n.vector_mapping.dims) = 0

\* ------------------------------------------------------------------------
\* C23
\* ------------------------------------------------------------------------
\* The events of seq whose op is one of ops, in order
RECURSIVE Select(_, _)
Select(seq, ops) ==
    IF Len(seq) = 0 THEN <<>>
    ELSE (IF seq[1].op \in ops THEN <<seq[1]>> ELSE <<>>) \o Select(Tail(seq), ops)

\* The concatenation of a sequence of sequences
RECURSIVE Flatten(_)
Flatten(ss) == IF Len(ss) = 0 THEN <<>> ELSE ss[1] \o Flatten(Tail(ss))

\* The events a composite emits itself: those after its struct-begin and
\* the code of its children
OwnEvents(n) ==
    LET block == gen_call_data_code(n, CodeGen, context, Depth(n)).cg.call_data_structs
        inner == Flatten([k \in 1..Len(n.children) |->
                   gen_call_data_code(n.children[k], CodeGen, context, Depth(n) + 1).cg.call_data_structs])
    IN SubSeq(block, 2 + Len(inner), Len(block))

\* The slots of n whose access is not none, in the order primal, derivative
Slots(n) ==
    (IF n.access[1] # "none" THEN <<"primal">> ELSE <<>>)
    \o (IF n.access[2] # "none" THEN <<"derivative">> ELSE <<>>)

\* The type a routine of the slot takes
SlotType(n, slot) ==
    IF slot = "primal" THEN n.vector_type.full_name ELSE n.vector_type.full_name \o ".Differential"

\* The calls of the children's accessors of a slot, in child order
Delegations(n, slot) ==
    [k \in 1..Len(n.children) |->
       Emit("append_statement",
            "this." \o n.children[k].variable_name \o ".load_" \o slot \o "(ctx(context, _m_"
              \o n.children[k].variable_name \o ")," \o n.children[k].name \o ")", "")]
    \o [k \in 1..Len(n.children) |->
       Emit("append_statement",
            "this." \o n.children[k].variable_name \o ".store_" \o slot \o "(ctx(context, _m_"
              \o n.children[k].variable_name \o "),value." \o n.children[k].name \o ")", "")]

\* C23: the code of a composite is a struct _t_<name> whose own events
\* begin with exactly one declaration `_t_<child> <child>` per child in
\* child order, followed for each slot whose access is not none by exactly
\* one load_<slot> and one store_<slot> routine that call every child's
\* accessor of that slot in child order; a slot whose access is none has
\* no routine, so access (none, none) gives the declarations only.
C23_CompositeStruct ==
    pc \in {"differentiated", "generated"} =>
        \A n \in Composites :
            LET r == gen_call_data_code(n, CodeGen, context, Depth(n))
                own == OwnEvents(n)
                nc == Len(n.children)
            IN r.err = NoErr =>
               /\ r.cg.call_data_structs[1] = Emit("begin_struct", "_t_" \o n.variable_name, "")
               /\ SubSeq(own, 1, nc) =
                    [k \in 1..nc |-> Emit("declare", "_t_" \o n.children[k].variable_name,
                                          n.children[k].variable_name)]
               /\ Select(own, {"begin_struct", "end_struct"}) = <<Emit("end_struct", "", "")>>
               /\ Select(own, {"append_line"}) =
                    Flatten([s \in 1..Len(Slots(n)) |->
                       <<Emit("append_line", "void load_" \o Slots(n)[s] \o "(IContext context, out "
                                               \o SlotType(n, Slots(n)[s]) \o " value)", ""),
                         Emit("append_line", "void store_" \o Slots(n)[s] \o "(IContext context, in "
                                               \o SlotType(n, Slots(n)[s]) \o " value)", "")>>])
               /\ Select(SubSeq(own, 1, Len(own) - 1), {"append_statement"}) =
                    Flatten([s \in 1..Len(Slots(n)) |-> Delegations(n, Slots(n)[s])])
               /\ Len(Select(own, {"begin_block"})) = 2 * Len(Slots(n))
               /\ Len(Select(own, {"end_block"})) = 2 * Len(Slots(n))
               /\ (Len(Slots(n)) = 0 => Len(own) = nc + 2)

\* A generated call with a composite of two children whose primal and
\* derivative access are both not none
C23_Witness ==
    /\ pc = "generated"
    /\ \E n \in Composites :
         /\ Len(n.children) = 2
         /\ Len(Slots(n)) = 2
         /\ Len(Select(OwnEvents(n), {"append_line"})) = 4

C25_ModifiersInherited ==
    /\ \A n \in Composites : \A k \in 1..Len(n.children) :
         (Bound(n) /\ Bound(n.children[k])) =>
            n.children[k].slang_modifiers =
               n.slang_modifiers \cup Field(n.slang_type, n.children[k].name).modifiers
    /\ pc \in {"differentiated", "generated"} =>
         \A n \in Composites : \A d \in Descendants(n) :
            /\ n.slang_modifiers \subseteq d.slang_modifiers
            /\ "nodiff" \in n.slang_modifiers => ~d.differentiable
            /\ n.slang_modifiers \cap {"out", "inout"} # {} => io_type(d) # "inn"

\* After the differentiability pass: a composite bound with no-diff and out
\* whose grandchild has a differentiable type and marshall and declares no
\* modifier of its own
C25_Witness ==
    /\ pc = "differentiated"
    /\ \E n \in Composites :
         /\ n.slang_modifiers = {"nodiff", "out"}
         /\ \E k \in 1..Len(n.children) : \E j \in 1..Len(n.children[k].children) :
              LET d == n.children[k].children[j] IN
              /\ d.slang_modifiers = {"nodiff", "out"}
              /\ d.vector_type.differentiable /\ d.python.has_derivative
              /\ ~d.differentiable
              /\ io_type(d) = "out"

\* ------------------------------------------------------------------------
\* C26
\* ------------------------------------------------------------------------
\* The struct type name and the mapping constant name generated for a node
GeneratedNames(n) == {"_t_" \o n.variable_name, "_m_" \o n.variable_name}

\* The roots of the call
Roots == {values(call)[i] : i \in 1..Len(values(call))}

\* C26 as stated: in the code generated for a call no two distinct nodes
\* emit the same name _t_<x> or _m_<x>, also when two fields of the same
\* name are nested under different parents.
C26_GeneratedNamesUnique ==
    pc = "generated" =>
        \A n1, n2 \in Nodes : n1.id # n2.id => GeneratedNames(n1) \cap GeneratedNames(n2) = {}

\* C26: in the code generated for a call the names _t_<x> and _m_<x> are
\* distinct among the roots and among the children of one composite, and
\* every name is formed from the node's own name only (variable_name is
\* the name, not the path).
C26_GeneratedNamesUniqueAmongSiblings ==
    pc = "generated" =>
        /\ \A n1, n2 \in Roots : n1.id # n2.id => GeneratedNames(n1) \cap GeneratedNames(n2) = {}
        /\ \A n \in Composites : \A i, j \in 1..Len(n.children) :
             i # j => GeneratedNames(n.children[i]) \cap GeneratedNames(n.children[j]) = {}
        /\ \A n \in Nodes : n.variable_name = n.name

\* Generated code for a tree in which the field x occurs under two parents:
\* both nodes emit _m_x
C26_Witness ==
    /\ pc = "generated"
    /\ \E n1, n2 \in Nodes :
         /\ n1.id # n2.id /\ n1.path # n2.path
         /\ GeneratedNames(n1) = GeneratedNames(n2)
         /\ n1.children_is_none /\ n2.children_is_none
         /\ \E k1, k2 \in MappingConstantsIn(cg.call_data_structs) :
              /\ k1 # k2
              /\ cg.call_data_structs[k1] = MappingConstant(n1.variable_name, n1.vector_mapping.dims)
              /\ cg.call_data_structs[k2] = MappingConstant(n2.variable_name, n2.vector_mapping.dims)

\* ------------------------------------------------------------------------
\* C27
\* ------------------------------------------------------------------------
\* C27: when the explicit override of a variable fails with a
\* BoundVariableException, that variable's vector_mapping, vector_type and
\* explicitly_vectorized are what they were before the attempt, so that a
\* valid vector_mapping implies explicitly_vectorized.
C27_FailedOverrideLeavesVariable ==
    [][(pc = "built" /\ pc' = "failed" /\ err'.kind = "BoundVariableException") =>
          LET before == NodeAt(call, err'.variable)
              after == NodeAt(call', err'.variable)
          IN /\ after.vector_mapping = before.vector_mapping
             /\ after.vector_type = before.vector_type
             /\ after.explicitly_vectorized = before.explicitly_vectorized
             /\ after.vector_mapping.valid => after.explicitly_vectorized]_vars

\* ------------------------------------------------------------------------
\* C28
\* ------------------------------------------------------------------------
\* The number of the first k events of block whose op is op
CountOp(block, k, op) == Cardinality({i \in 1..k : block[i].op = op})

\* The nesting depth after the first k events: structs and blocks opened
\* and not yet closed
NestingDepth(block, k) ==
    (CountOp(block, k, "begin_struct") - CountOp(block, k, "end_struct"))
    + (CountOp(block, k, "begin_block") - CountOp(block, k, "end_block"))

\* block[k] opens a struct or block that a later event of the same kind closes
Matched(block, k, open, close) ==
    \E j \in (k + 1)..Len(block) :
       /\ block[j].op = close
       /\ CountOp(block, j, open) - CountOp(block, j, close)
            = CountOp(block, k, open) - CountOp(block, k, close) - 1

\* C28: the events emitted by gen_call_data_code are properly nested: after
\* every event the number of open structs and of open blocks is not
\* negative; in a completed generation every struct-begin and every
\* block-begin is closed by a later end of its kind and the final depth is
\* zero; the code of a composite is its struct-begin, then all the events of
\* its descendants, then its field declarations, and its own mapping
\* constant comes right after its struct-end, as the last event.
C28_ProperlyNested ==
    LET block == cg.call_data_structs IN
    /\ \A k \in 0..Len(block) :
         /\ CountOp(block, k, "begin_struct") >= CountOp(block, k, "end_struct")
         /\ CountOp(block, k, "begin_block") >= CountOp(block, k, "end_block")
    /\ pc = "generated" =>
         /\ NestingDepth(block, Len(block)) = 0
         /\ \A k \in 1..Len(block) :
              /\ block[k].op = "begin_struct" => Matched(block, k, "begin_struct", "end_struct")
              /\ block[k].op = "begin_block" => Matched(block, k, "begin_block", "end_block")
         /\ \A n \in Composites :
              LET code == gen_call_data_code(n, CodeGen, context, Depth(n)).cg.call_data_structs
                  inner == Flatten([k \in 1..Len(n.children) |->
                             gen_call_data_code(n.children[k], CodeGen, context,
                                                Depth(n) + 1).cg.call_data_structs])
                  nc == Len(n.children)
              IN /\ code[1].op = "begin_struct"
                 /\ SubSeq(code, 2, 1 + Len(inner)) = inner
                 /\ \A k \in 1..nc : code[1 + Len(inner) + k].op = "declare"
                 /\ Matched(code, 1, "begin_struct", "end_struct")
                 /\ code[Len(code) - 1] = Emit("end_struct", "", "")
                 /\ code[Len(code)] = MappingConstant(n.variable_name, Range(context.call_dimensionality))
                 /\ NestingDepth(code, Len(code)) = 0

\* Generated code with a struct inside a struct and accessor blocks
C28_Witness ==
    /\ pc = "generated"
    /\ \E k \in 1..Len(cg.call_data_structs) :
         CountOp(cg.call_data_structs, k, "begin_struct")
           - CountOp(cg.call_data_structs, k, "end_struct") = 2
    /\ CountOp(cg.call_data_structs, Len(cg.call_data_structs), "begin_block") >= 4

\* ------------------------------------------------------------------------
\* C29
\* ------------------------------------------------------------------------
\* C29: after the differentiability pass every leaf whose marshall is
\* NDBufferType has an access pair that passes the assertions of
\* NDBufferType.gen_calldata: the primal access is not none and the
\* derivative access is none, in every call mode, for every io direction
\* and modifier set.
C29_NDBufferAccessAsserted ==
    pc \in {"differentiated", "generated"} =>
        \A n \in Leaves : n.python.kind = "NDBufferType" =>
            /\ n.access[1] # "none"
            /\ n.access[2] = "none"
            /\ ~gen_calldata_raises(n)

====
